---- MODULE Spec2Model ----
(***************************************************************************)
(* Model of the "Deteksi Produk Israel" dashboard client:                  *)
(*   - DetectionApi (lib/api): the REST client and its result conversion,  *)
(*   - Dashboard (app/page): capture / upload, detection, capped history,  *)
(*   - SystemStatus (components/SystemStatus): the status poll,            *)
(*   - lib/utils: the confidence colour buckets.                           *)
(* JavaScript values are records [t |-> type, v |-> token]; a function     *)
(* call is modelled by its completion (a returned value or a thrown        *)
(* exception), so that exception propagation is part of the model.         *)
(***************************************************************************)
EXTENDS Integers, Sequences, FiniteSets, TLC

VARIABLES
  \* Dashboard state (useState hooks)
  isDetecting, detectionResult, error, capturedImage, isWebcamActive,
  detectionHistory,
  \* POST /analyze requests sent and not yet answered, in submission order
  inflight,
  \* the handler that ran last and what it did on the network
  lastStep,
  \* SystemStatus state (useState hooks)
  modelInfo, healthStatus, brandsCount, isLoading, statusError,
  \* status polls awaiting their three responses, the component's place in
  \* its lifecycle, and the status handler that ran last
  polls, mountState, lastPoll,
  \* one DetectionApi call: its input and its completion
  apiCall, apiResult,
  \* lib/utils colour functions: input and outputs
  confidence, textColor, bgColor,
  \* one detection result (the result prop) and what DetectionResultCard
  \* and a row of DetectionHistory render for it
  propsResult, cardView, rowView,
  \* one analyzeBatch call: the input array, the multipart body sent, the
  \* results the service answered with, and the completion of the call
  imageFiles, formData, serviceResults, batchResult

dashVars == <<isDetecting, detectionResult, error, capturedImage,
              isWebcamActive, detectionHistory, inflight, lastStep>>
statusVars == <<modelInfo, healthStatus, brandsCount, isLoading, statusError,
                polls, mountState, lastPoll>>
apiVars == <<apiCall, apiResult>>
utilVars == <<confidence, textColor, bgColor>>
viewVars == <<propsResult, cardView, rowView>>
batchVars == <<imageFiles, formData, serviceResults, batchResult>>
vars == <<dashVars, statusVars, apiVars, utilVars, viewVars, batchVars>>

\* the variables a step of one component leaves alone
exceptDash == <<statusVars, apiVars, utilVars, viewVars, batchVars>>
exceptStatus == <<dashVars, apiVars, utilVars, viewVars, batchVars>>
exceptApi == <<dashVars, statusVars, utilVars, viewVars, batchVars>>
exceptUtil == <<dashVars, statusVars, apiVars, viewVars, batchVars>>
exceptView == <<dashVars, statusVars, apiVars, utilVars, batchVars>>
exceptBatch == <<dashVars, statusVars, apiVars, utilVars, viewVars>>

(***************************************************************************)
(* JavaScript values                                                       *)
(***************************************************************************)
Undefined == [t |-> "undefined", v |-> "undefined"]
Null == [t |-> "null", v |-> "null"]
Str(s) == [t |-> "string", v |-> s]
Num(s) == [t |-> "number", v |-> s]
Bool(s) == [t |-> "boolean", v |-> s]
\* an array is identified by its String() form, an object by a name
Arr(s) == [t |-> "array", v |-> s]
Obj(s) == [t |-> "object", v |-> s]

\* String(x), as used by `new Error(x)` and template literals
ToStr(x) == IF x.t = "object" THEN "[object Object]" ELSE x.v

\* ToBoolean(x): undefined, null, "", 0 and false are falsy
Truthy(x) ==
  CASE x.t \in {"undefined", "null"} -> FALSE
    [] x.t = "string" -> x.v # ""
    [] x.t = "number" -> x.v # "0"
    [] x.t = "boolean" -> x.v = "true"
    [] OTHER -> TRUE

\* a || b
Or(a, b) == IF Truthy(a) THEN a ELSE b

(***************************************************************************)
(* Completions: a call returns a value or throws an exception              *)
(***************************************************************************)
NoException == [isError |-> FALSE, message |-> "none"]
ErrorObj(m) == [isError |-> TRUE, message |-> m]
\* a thrown value that is not an instance of Error
NonError == [isError |-> FALSE, message |-> "non-error"]

NoValue == [success |-> FALSE, data |-> Undefined, error |-> Undefined]
Return(val) == [kind |-> "return", value |-> val, exception |-> NoException]
Throw(e) == [kind |-> "throw", value |-> NoValue, exception |-> e]
Pending == [kind |-> "pending", value |-> NoValue, exception |-> NoException]
\* the value of a variable whose component is not run, or not yet
NotRun == "not run"

SyntaxErrorMsg == "Unexpected token < in JSON at position 0"
NullDetailMsg == "Cannot read properties of null (reading 'detail')"
FetchFailedMsg == "Failed to fetch"

(***************************************************************************)
(* HTTP exchanges: what fetch() can settle with                            *)
(***************************************************************************)
NotJsonBody == [json |-> FALSE, data |-> Undefined, detail |-> Undefined]
\* a JSON body: the parsed value, and its `detail` property when it is an
\* object (Undefined when the object has none)
JsonBody(val, det) == [json |-> TRUE, data |-> val, detail |-> det]

DetailValues ==
  { Str("Invalid image format"), Str(""), Null, Num("0"), Num("42"),
    Bool("false"), Bool("true"), Arr(""), Arr("[object Object]"),
    Obj("validation") }

Bodies ==
  { NotJsonBody,
    JsonBody(Null, Undefined),
    JsonBody(Num("5"), Undefined),
    JsonBody(Arr(""), Undefined),
    JsonBody(Obj("r1"), Undefined) }
  \cup { JsonBody(Obj("errorData"), d) : d \in DetailValues }

StatusLines ==
  { [status |-> 200, statusText |-> "OK"],
    [status |-> 404, statusText |-> "Not Found"],
    [status |-> 422, statusText |-> "Unprocessable Entity"],
    [status |-> 500, statusText |-> "Internal Server Error"],
    [status |-> 503, statusText |-> ""] }

MkResponse(line, b) ==
  [status |-> line.status, statusText |-> line.statusText, body |-> b]
NoResponse == MkResponse([status |-> 0, statusText |-> ""], NotJsonBody)

\* fetch() resolved with a response, or rejected with a thrown value
Resolved(r) == [rejected |-> FALSE, rejection |-> NoException, response |-> r]
Rejected(e) == [rejected |-> TRUE, rejection |-> e, response |-> NoResponse]

Exchanges ==
  { Rejected(ErrorObj(FetchFailedMsg)), Rejected(NonError) }
  \cup { Resolved(MkResponse(l, b)) : l \in StatusLines, b \in Bodies }

\* Response.ok
Ok(response) == response.status >= 200 /\ response.status <= 299

\* response.json()
ResponseJson(response) ==
  IF response.body.json THEN Return(response.body.data)
  ELSE Throw(ErrorObj(SyntaxErrorMsg))

(***************************************************************************)
(* DetectionApi                                                            *)
(***************************************************************************)
\* `HTTP ${response.status}: ${response.statusText}`
HttpStatusMessage(response) ==
  Str("HTTP " \o ToString(response.status) \o ": " \o response.statusText)

\* the catch blocks: error instanceof Error ? error.message : fallback
CatchResult(e, fallback) ==
  Return([success |-> FALSE, data |-> Undefined,
          error |-> IF e.isError THEN Str(e.message) ELSE Str(fallback)])

\* the try block of handleResponse
HandleResponseTry(response) ==
  LET parsed == ResponseJson(response) IN
  IF ~Ok(response)
  THEN IF parsed.kind = "throw" THEN Throw(parsed.exception)
       ELSE IF response.body.data.t \in {"null", "undefined"}
            THEN Throw(ErrorObj(NullDetailMsg))
            ELSE LET errorDetail ==
                       IF response.body.data.t = "object"
                       THEN response.body.detail ELSE Undefined
                 IN Return([success |-> FALSE, data |-> Undefined,
                            error |-> Or(errorDetail,
                                         HttpStatusMessage(response))])
  ELSE IF parsed.kind = "throw" THEN Throw(parsed.exception)
       ELSE Return([success |-> TRUE, data |-> response.body.data,
                    error |-> Undefined])

\* a handleResponse whose try block has no catch
HandleResponseNoCatch(response) == HandleResponseTry(response)

HandleResponse(response) ==
  LET c == HandleResponseTry(response) IN
  IF c.kind = "throw"
  THEN CatchResult(c.exception, "Unknown error occurred")
  ELSE c

\* the shared shape of the six calls: try { fetch; return handleResponse }
\* catch { Network error }.  The promise of handleResponse is returned
\* without await, so only a rejection of fetch reaches the catch block.
FetchAndHandle(exchange) ==
  IF exchange.rejected
  THEN CatchResult(exchange.rejection, "Network error")
  ELSE HandleResponse(exchange.response)

AnalyzeImage(exchange) == FetchAndHandle(exchange)
AnalyzeImageFromBlob(exchange) == FetchAndHandle(exchange)
AnalyzeBatch(exchange) == FetchAndHandle(exchange)
GetModelInfo(exchange) == FetchAndHandle(exchange)
GetBrandsDatabase(exchange) == FetchAndHandle(exchange)
HealthCheck(exchange) == FetchAndHandle(exchange)

(***************************************************************************)
(* lib/utils: dataURLtoFile                                                *)
(***************************************************************************)
\* what getScreenshot() and FileReader.readAsDataURL produce for an image
ImageDataURL == Str("data:image/jpeg;base64,/9j/4AAQSkZJRg==")
\* what readAsDataURL produces for an empty file: no mime part, no comma
EmptyFileDataURL == Str("data:")
DataURLs == {ImageDataURL, EmptyFileDataURL}

\* arr[0].match(/:(.*?);/) on dataurl.split(',')[0]: the match, or null
MimeMatch(dataurl) ==
  IF dataurl = ImageDataURL THEN Str("image/jpeg") ELSE Null

NullIndexMsg == "Cannot read properties of null (reading '1')"

DataURLtoFile(dataurl) ==
  IF MimeMatch(dataurl) = Null THEN Throw(ErrorObj(NullIndexMsg))
  ELSE Return(Obj("capture.jpg"))

(***************************************************************************)
(* Dashboard                                                               *)
(***************************************************************************)
\* the most requests the model keeps outstanding at once
MaxInFlight == 2

\* prev.slice(0, 9)
HistoryKeep == 9

Min(a, b) == IF a <= b THEN a ELSE b

\* what the service may answer to POST /analyze in the Dashboard runs
DetectionResults == {Obj("r1"), Obj("r2")}
AnalyzeExchanges ==
  { Resolved(MkResponse([status |-> 500,
                         statusText |-> "Internal Server Error"],
                        JsonBody(Obj("errorData"),
                                 Str("Invalid image format")))) }
  \cup { Resolved(MkResponse([status |-> 200, statusText |-> "OK"],
                             JsonBody(r, Undefined))) :
           r \in DetectionResults }

\* an outstanding request; overtaken: the response of a request submitted
\* after it has already been applied
Request == [overtaken |-> FALSE]

\* the handler that ran last: op is "submit" (detectProduct was called),
\* "success" or "failure" (detectProduct resumed with a response) or "ui"
\* (any other handler); sent counts the requests the handler issued
Step(op, sent) == [op |-> op, sent |-> sent]

\* a history update that keeps one entry too many: prev.slice(0, 10)
PushHistoryKeepTen(data, prev) ==
  <<data>> \o SubSeq(prev, 1, Min(HistoryKeep + 1, Len(prev)))

\* a history update that appends at the end: [...prev.slice(0, 9), data]
PushHistoryBack(data, prev) ==
  SubSeq(prev, 1, Min(HistoryKeep, Len(prev))) \o <<data>>

\* a history update that first removes the entries equal to the new result:
\* [data, ...prev.filter(r => r !== data).slice(0, 9)]
PushHistoryDedup(data, prev) ==
  LET others == SelectSeq(prev, LAMBDA r : r # data)
  IN <<data>> \o SubSeq(others, 1, Min(HistoryKeep, Len(others)))

\* [data, ...prev.slice(0, 9)]
PushHistory(data, prev) ==
  <<data>> \o SubSeq(prev, 1, Min(HistoryKeep, Len(prev)))


\* a detectProduct without its finally block: a conversion that throws
\* leaves isDetecting as setIsDetecting(true) set it
DetectProductStartNoFinally(imageData) ==
  LET imageFile == DataURLtoFile(imageData) IN
  IF imageFile.kind = "throw"
  THEN /\ error' = Str(imageFile.exception.message)
       /\ isDetecting' = TRUE
       /\ inflight' = inflight
       /\ lastStep' = Step("submit", 0)
  ELSE /\ error' = Null
       /\ isDetecting' = TRUE
       /\ inflight' = Append(inflight, Request)
       /\ lastStep' = Step("submit", 1)

\* detectProduct up to its first await: the conversion, and the request
DetectProductStart(imageData) ==
  LET imageFile == DataURLtoFile(imageData) IN
  IF imageFile.kind = "throw"
  THEN /\ error' = (IF imageFile.exception.isError
                    THEN Str(imageFile.exception.message)
                    ELSE Str("Terjadi kesalahan saat deteksi"))
       /\ isDetecting' = FALSE
       /\ inflight' = inflight
       /\ lastStep' = Step("submit", 0)
  ELSE /\ error' = Null
       /\ isDetecting' = TRUE
       /\ inflight' = Append(inflight, Request)
       /\ lastStep' = Step("submit", 1)

\* the capture button: rendered while the webcam is shown, disabled while
\* isDetecting; getScreenshot() gives a data URL, or null before the video
\* is ready
Capture ==
  /\ isWebcamActive /\ capturedImage = Null /\ ~isDetecting
  /\ Len(inflight) < MaxInFlight
  /\ \E imageSrc \in {Null, ImageDataURL} :
       IF Truthy(imageSrc)
       THEN /\ capturedImage' = imageSrc
            /\ DetectProductStart(imageSrc)
       ELSE /\ lastStep' = Step("ui", 0)
            /\ UNCHANGED <<capturedImage, error, isDetecting, inflight>>
  /\ UNCHANGED <<detectionResult, isWebcamActive, detectionHistory>>

\* handleFileUpload: the chosen file is read and reader.onload runs
\* detectProduct on its data URL; the upload button is never disabled
HandleFileUpload ==
  /\ Len(inflight) < MaxInFlight
  /\ \E imageSrc \in DataURLs :
       /\ capturedImage' = imageSrc
       /\ DetectProductStart(imageSrc)
  /\ UNCHANGED <<detectionResult, isWebcamActive, detectionHistory>>

\* the requests left when the i-th answers: those submitted before it are
\* now overtaken
Settle(reqs, i) ==
  [j \in 1..(Len(reqs) - 1) |->
     IF j < i THEN [overtaken |-> TRUE] ELSE reqs[j + 1]]

\* a catch block that sends the request again
DetectProductCatchRetry(message, i) ==
  /\ error' = message
  /\ inflight' = Append(Settle(inflight, i), Request)
  /\ lastStep' = Step("failure", 1)
  /\ UNCHANGED <<detectionResult, detectionHistory>>

\* the catch block of detectProduct, run when the i-th request failed
DetectProductCatch(message, i) ==
  /\ error' = message
  /\ inflight' = Settle(inflight, i)
  /\ lastStep' = Step("failure", 0)
  /\ UNCHANGED <<detectionResult, detectionHistory>>

\* a success path that discards the response of an overtaken request
DetectProductApplyLatestOnly(data, i) ==
  /\ IF inflight[i].overtaken
     THEN UNCHANGED <<detectionResult, detectionHistory>>
     ELSE /\ detectionResult' = data
          /\ detectionHistory' = PushHistory(data, detectionHistory)
  /\ inflight' = Settle(inflight, i)
  /\ lastStep' = Step("success", 0)
  /\ UNCHANGED error

\* the success path of detectProduct, run with the data of the i-th request
DetectProductApply(data, i) ==
  /\ detectionResult' = data
  /\ detectionHistory' = PushHistory(data, detectionHistory)
  /\ inflight' = Settle(inflight, i)
  /\ lastStep' = Step("success", 0)
  /\ UNCHANGED error

\* detectProduct after its await: the i-th outstanding request settles with
\* exchange ex
DetectProductResume(i, ex) ==
  LET c == AnalyzeImage(ex)
      result == c.value
      failed == c.kind = "throw" \/ ~result.success
      message ==
        IF c.kind = "throw"
        THEN (IF c.exception.isError THEN Str(c.exception.message)
              ELSE Str("Terjadi kesalahan saat deteksi"))
        ELSE Str(ToStr(Or(result.error,
                          Str("Gagal melakukan deteksi produk"))))
  IN
  /\ IF failed THEN DetectProductCatch(message, i)
     ELSE DetectProductApply(result.data, i)
  /\ isDetecting' = FALSE
  /\ UNCHANGED <<capturedImage, isWebcamActive>>

Response ==
  \E i \in 1..Len(inflight) : \E ex \in AnalyzeExchanges :
    DetectProductResume(i, ex)

\* a toggleWebcam that keeps the displayed result when the webcam is
\* turned off
ToggleWebcamKeepingResult ==
  /\ isWebcamActive' = ~isWebcamActive
  /\ IF isWebcamActive
     THEN capturedImage' = Null /\ UNCHANGED detectionResult
     ELSE UNCHANGED <<capturedImage, detectionResult>>
  /\ lastStep' = Step("ui", 0)
  /\ UNCHANGED <<isDetecting, error, detectionHistory, inflight>>

ToggleWebcam ==
  /\ isWebcamActive' = ~isWebcamActive
  /\ IF isWebcamActive
     THEN capturedImage' = Null /\ detectionResult' = Null
     ELSE UNCHANGED <<capturedImage, detectionResult>>
  /\ lastStep' = Step("ui", 0)
  /\ UNCHANGED <<isDetecting, error, detectionHistory, inflight>>

HandleSelectHistoryResult ==
  \E i \in 1..Len(detectionHistory) :
    /\ detectionResult' = detectionHistory[i]
    /\ capturedImage' = Null
    /\ lastStep' = Step("ui", 0)
    /\ UNCHANGED <<isDetecting, error, isWebcamActive, detectionHistory,
                   inflight>>

DashInit ==
  /\ isDetecting = FALSE
  /\ detectionResult = Null
  /\ error = Null
  /\ capturedImage = Null
  /\ isWebcamActive = FALSE
  /\ detectionHistory = <<>>
  /\ inflight = <<>>
  /\ lastStep = Step("ui", 0)

Next ==
  \/ Capture /\ UNCHANGED exceptDash
  \/ HandleFileUpload /\ UNCHANGED exceptDash
  \/ Response /\ UNCHANGED exceptDash
  \/ ToggleWebcam /\ UNCHANGED exceptDash
  \/ HandleSelectHistoryResult /\ UNCHANGED exceptDash

(***************************************************************************)
(* SystemStatus                                                            *)
(***************************************************************************)
\* the most status polls the model keeps outstanding at once
MaxPolls == 2

\* what the service may answer to the three status requests
HealthResults ==
  {Obj("healthy-ready"), Obj("healthy-loading"), Obj("degraded")}
BrandDatabases == {Obj("brands0"), Obj("brands2"), Obj("brands3")}

OkResponse(data) ==
  Resolved(MkResponse([status |-> 200, statusText |-> "OK"],
                      JsonBody(data, Undefined)))
ServerError ==
  Resolved(MkResponse([status |-> 500,
                       statusText |-> "Internal Server Error"],
                      NotJsonBody))

HealthExchanges ==
  {Rejected(ErrorObj(FetchFailedMsg))}
  \cup {OkResponse(h) : h \in HealthResults}
ModelExchanges == {ServerError, OkResponse(Obj("model-ready"))}
BrandsExchanges ==
  {ServerError, OkResponse(Null), OkResponse(Obj("brandsNoProducts"))}
  \cup {OkResponse(b) : b \in BrandDatabases}

\* Object.values(brands): per brand, the length of its products array, or
\* -1 when the brand has no products property
BrandValues(brands) ==
  CASE brands = Obj("brands0") -> <<>>
    [] brands = Obj("brands2") -> <<2>>
    [] brands = Obj("brands3") -> <<1, 2>>
    [] OTHER -> <<-1>>

RECURSIVE SumLengths(_)
SumLengths(lengths) ==
  IF lengths = <<>> THEN 0 ELSE Head(lengths) + SumLengths(Tail(lengths))

\* a total that counts the brands instead of their products
TotalProductsCountingBrands(brands) ==
  IF brands.t \in {"null", "undefined"}
  THEN Throw(ErrorObj("Cannot convert undefined or null to object"))
  ELSE Return(Len(BrandValues(brands)))

\* Object.values(brands).reduce((sum, brand) => sum + brand.products.length, 0)
TotalProducts(brands) ==
  IF brands.t \in {"null", "undefined"}
  THEN Throw(ErrorObj("Cannot convert undefined or null to object"))
  ELSE IF \E k \in 1..Len(BrandValues(brands)) : BrandValues(brands)[k] < 0
       THEN Throw(ErrorObj("Cannot read properties of undefined"))
       ELSE Return(SumLengths(BrandValues(brands)))

\* the status handler that ran last; failed: a poll completed and one of
\* its three results was not a success; responses: the three results of the
\* poll that completed
NoResponses == [health |-> NoValue, model |-> NoValue, brands |-> NoValue]
StatusStep(op, failed) ==
  [op |-> op, failed |-> failed, responses |-> NoResponses]

\* fetchSystemStatus up to its await: the three requests are sent
FetchSystemStatusStart(op) ==
  /\ polls < MaxPolls
  /\ isLoading' = TRUE
  /\ statusError' = Null
  /\ polls' = polls + 1
  /\ lastPoll' = StatusStep(op, FALSE)
  /\ UNCHANGED <<modelInfo, healthStatus, brandsCount>>

\* the effect run once after the first render
UseEffect ==
  /\ mountState = "rendered"
  /\ mountState' = "mounted"
  /\ FetchSystemStatusStart("mount")

\* a timer callback that skips its tick while a poll is outstanding
IntervalTickSkipping ==
  /\ mountState = "mounted"
  /\ UNCHANGED mountState
  /\ IF polls > 0
     THEN /\ lastPoll' = StatusStep("tick", FALSE)
          /\ UNCHANGED <<modelInfo, healthStatus, brandsCount, isLoading,
                         statusError, polls>>
     ELSE FetchSystemStatusStart("tick")

\* setInterval(fetchSystemStatus, 30000)
IntervalTick ==
  /\ mountState = "mounted"
  /\ UNCHANGED mountState
  /\ FetchSystemStatusStart("tick")

\* the view rendered: loading spinner, error view, or the status panel
StatusView ==
  IF isLoading THEN "loading"
  ELSE IF Truthy(statusError) THEN "error" ELSE "status"

\* the fields of the health bodies: { status, model_ready }
HealthFields(health) ==
  CASE health = Obj("healthy-ready") ->
         [status |-> Str("healthy"), model_ready |-> Bool("true")]
    [] health = Obj("healthy-loading") ->
         [status |-> Str("healthy"), model_ready |-> Bool("false")]
    [] health = Obj("degraded") ->
         [status |-> Str("degraded"), model_ready |-> Bool("true")]

\* healthStatus?.status and healthStatus?.model_ready
HealthStatusField(health, field) ==
  IF health.t \in {"null", "undefined"} THEN Undefined
  ELSE HealthFields(health)[field]

\* a && b
And(a, b) == IF Truthy(a) THEN b ELSE a

\* a health test that looks at the status alone
IsSystemHealthyByStatus(health) ==
  Bool(IF HealthStatusField(health, "status") = Str("healthy")
       THEN "true" ELSE "false")

\* healthStatus?.status === 'healthy' && healthStatus?.model_ready
IsSystemHealthy(health) ==
  And(Bool(IF HealthStatusField(health, "status") = Str("healthy")
           THEN "true" ELSE "false"),
      HealthStatusField(health, "model_ready"))

\* the three labels of the status panel
SystemLabel ==
  IF Truthy(IsSystemHealthy(healthStatus)) THEN "Online" ELSE "Offline"
ApiServerLabel ==
  IF HealthStatusField(healthStatus, "status") = Str("healthy")
  THEN "Aktif" ELSE "Tidak Aktif"
ModelLabel ==
  IF Truthy(HealthStatusField(healthStatus, "model_ready"))
  THEN "Siap" ELSE "Tidak Siap"

\* "Refresh Status" of the status panel and "Coba Lagi" of the error view
Refresh ==
  /\ mountState = "mounted"
  /\ StatusView \in {"status", "error"}
  /\ UNCHANGED mountState
  /\ FetchSystemStatusStart("refresh")

\* the catch block of fetchSystemStatus
StatusCatchMessage == Str("Gagal memuat status sistem")

\* a fetchSystemStatus that clears the health state when its health
\* request failed
FetchSystemStatusResumeClearing(hx, mx, bx) ==
  LET healthResponse == HealthCheck(hx)
      modelResponse == GetModelInfo(mx)
      brandsResponse == GetBrandsDatabase(bx)
      responses == {healthResponse, modelResponse, brandsResponse}
      total == TotalProducts(brandsResponse.value.data)
      brandsThrow == brandsResponse.value.success /\ total.kind = "throw"
  IN
  /\ healthStatus' = IF healthResponse.value.success
                     THEN healthResponse.value.data ELSE Null
  /\ modelInfo' = IF modelResponse.value.success
                  THEN modelResponse.value.data ELSE modelInfo
  /\ brandsCount' = IF brandsResponse.value.success /\ ~brandsThrow
                    THEN total.value ELSE brandsCount
  /\ statusError' = IF brandsThrow THEN StatusCatchMessage ELSE statusError
  /\ isLoading' = FALSE
  /\ lastPoll' =
       [StatusStep("complete", \E c \in responses : ~c.value.success)
        EXCEPT !.responses = [health |-> healthResponse.value,
                              model |-> modelResponse.value,
                              brands |-> brandsResponse.value]]

\* fetchSystemStatus after Promise.all settles, with the three exchanges
FetchSystemStatusResume(hx, mx, bx) ==
  LET healthResponse == HealthCheck(hx)
      modelResponse == GetModelInfo(mx)
      brandsResponse == GetBrandsDatabase(bx)
      responses == {healthResponse, modelResponse, brandsResponse}
      rejected == \E c \in responses : c.kind = "throw"
      total == TotalProducts(brandsResponse.value.data)
      brandsThrow == brandsResponse.value.success /\ total.kind = "throw"
  IN
  /\ healthStatus' = IF ~rejected /\ healthResponse.value.success
                     THEN healthResponse.value.data ELSE healthStatus
  /\ modelInfo' = IF ~rejected /\ modelResponse.value.success
                  THEN modelResponse.value.data ELSE modelInfo
  /\ brandsCount' = IF ~rejected /\ brandsResponse.value.success
                       /\ ~brandsThrow
                    THEN total.value ELSE brandsCount
  /\ statusError' = IF rejected \/ brandsThrow
                    THEN StatusCatchMessage ELSE statusError
  /\ isLoading' = FALSE
  /\ lastPoll' =
       [StatusStep("complete",
                   \E c \in responses : c.kind = "throw" \/ ~c.value.success)
        EXCEPT !.responses = [health |-> healthResponse.value,
                              model |-> modelResponse.value,
                              brands |-> brandsResponse.value]]

PollComplete ==
  /\ polls > 0
  /\ mountState = "mounted"
  /\ polls' = polls - 1
  /\ UNCHANGED mountState
  /\ \E hx \in HealthExchanges, mx \in ModelExchanges, bx \in BrandsExchanges :
       FetchSystemStatusResume(hx, mx, bx)

\* the effect's cleanup: clearInterval(interval)
Unmount ==
  /\ mountState = "mounted"
  /\ mountState' = "unmounted"
  /\ lastPoll' = StatusStep("unmount", FALSE)
  /\ UNCHANGED <<modelInfo, healthStatus, brandsCount, isLoading,
                 statusError, polls>>

\* a poll that settles after the unmount updates no state
PollCompleteUnmounted ==
  /\ polls > 0
  /\ mountState = "unmounted"
  /\ polls' = polls - 1
  /\ lastPoll' = StatusStep("dropped", FALSE)
  /\ UNCHANGED <<modelInfo, healthStatus, brandsCount, isLoading,
                 statusError, mountState>>

StatusInit ==
  /\ modelInfo = Null /\ healthStatus = Null /\ brandsCount = 0
  /\ isLoading = TRUE /\ statusError = Null
  /\ polls = 0 /\ mountState = "rendered"
  /\ lastPoll = StatusStep("render", FALSE)

StatusNext ==
  \/ UseEffect /\ UNCHANGED exceptStatus
  \/ IntervalTick /\ UNCHANGED exceptStatus
  \/ Refresh /\ UNCHANGED exceptStatus
  \/ PollComplete /\ UNCHANGED exceptStatus
  \/ Unmount /\ UNCHANGED exceptStatus
  \/ PollCompleteUnmounted /\ UNCHANGED exceptStatus

(***************************************************************************)
(* One DetectionApi call on one exchange                                   *)
(***************************************************************************)
Endpoints ==
  {"analyzeImage", "analyzeImageFromBlob", "analyzeBatch", "getModelInfo",
   "getBrandsDatabase", "healthCheck"}

Call(endpoint) ==
  /\ apiCall.endpoint = endpoint
  /\ apiResult = Pending
  /\ apiResult' =
       CASE endpoint = "analyzeImage" -> AnalyzeImage(apiCall.exchange)
         [] endpoint = "analyzeImageFromBlob" ->
              AnalyzeImageFromBlob(apiCall.exchange)
         [] endpoint = "analyzeBatch" -> AnalyzeBatch(apiCall.exchange)
         [] endpoint = "getModelInfo" -> GetModelInfo(apiCall.exchange)
         [] endpoint = "getBrandsDatabase" ->
              GetBrandsDatabase(apiCall.exchange)
         [] OTHER -> HealthCheck(apiCall.exchange)
  /\ UNCHANGED apiCall

CallAnalyzeImage == Call("analyzeImage")
CallAnalyzeImageFromBlob == Call("analyzeImageFromBlob")
CallAnalyzeBatch == Call("analyzeBatch")
CallGetModelInfo == Call("getModelInfo")
CallGetBrandsDatabase == Call("getBrandsDatabase")
CallHealthCheck == Call("healthCheck")

ApiInit ==
  /\ apiCall \in [endpoint : Endpoints, exchange : Exchanges]
  /\ apiResult = Pending

ApiNext ==
  \/ CallAnalyzeImage /\ UNCHANGED exceptApi
  \/ CallAnalyzeImageFromBlob /\ UNCHANGED exceptApi
  \/ CallAnalyzeBatch /\ UNCHANGED exceptApi
  \/ CallGetModelInfo /\ UNCHANGED exceptApi
  \/ CallGetBrandsDatabase /\ UNCHANGED exceptApi
  \/ CallHealthCheck /\ UNCHANGED exceptApi

(***************************************************************************)
(* lib/utils: confidence colours                                           *)
(***************************************************************************)
\* confidence k stands for the value k / ConfSteps of [0, 1]
ConfSteps == 100

\* confidence >= n / 10
AtLeastTenths(c, n) == c * 10 >= n * ConfSteps

\* a colour function whose first comparison is strict: confidence > 0.8
GetConfidenceColorStrict(c) ==
  IF c * 10 > 8 * ConfSteps THEN "text-red-600"
  ELSE IF AtLeastTenths(c, 6) THEN "text-orange-600"
  ELSE IF AtLeastTenths(c, 4) THEN "text-yellow-600"
  ELSE "text-green-600"

GetConfidenceColor(c) ==
  IF AtLeastTenths(c, 8) THEN "text-red-600"
  ELSE IF AtLeastTenths(c, 6) THEN "text-orange-600"
  ELSE IF AtLeastTenths(c, 4) THEN "text-yellow-600"
  ELSE "text-green-600"

GetConfidenceBgColor(c) ==
  IF AtLeastTenths(c, 8) THEN "bg-red-50 border-red-200"
  ELSE IF AtLeastTenths(c, 6) THEN "bg-orange-50 border-orange-200"
  ELSE IF AtLeastTenths(c, 4) THEN "bg-yellow-50 border-yellow-200"
  ELSE "bg-green-50 border-green-200"

ConfidenceColor ==
  /\ textColor = "none"
  /\ textColor' = GetConfidenceColor(confidence)
  /\ UNCHANGED <<confidence, bgColor>>

ConfidenceBgColor ==
  /\ bgColor = "none"
  /\ bgColor' = GetConfidenceBgColor(confidence)
  /\ UNCHANGED <<confidence, textColor>>

UtilInit ==
  /\ confidence \in 0..ConfSteps
  /\ textColor = "none" /\ bgColor = "none"

UtilNext ==
  \/ ConfidenceColor /\ UNCHANGED exceptUtil
  \/ ConfidenceBgColor /\ UNCHANGED exceptUtil

(***************************************************************************)
(* DetectionResultCard and one row of DetectionHistory                     *)
(***************************************************************************)
\* the keys of detected_features
FeatureKeys ==
  {"barcode_729", "made_in_israel_text", "hebrew_text", "israeli_brand",
   "kosher_certification"}

\* detected_features of the results rendered, by the keys that are true
DetectedKeys ==
  {{}, {"israeli_brand"}, {"barcode_729", "hebrew_text"}, FeatureKeys}

\* brand_info: absent, null, or a brand with its risk level
BrandInfo(risk) == [t |-> "object", v |-> "brand", risk_level |-> risk]
BrandInfos ==
  {Undefined, Null} \cup {BrandInfo(risk) : risk \in {"high", "medium", "low"}}

\* the results rendered; confidence k stands for k / ConfSteps
Results ==
  [is_israeli_product : BOOLEAN,
   confidence : 0..ConfSteps,
   detected_features : {[k \in FeatureKeys |-> k \in keys] :
                          keys \in DetectedKeys},
   brand_info : BrandInfos]

GetRiskLevelColor(riskLevel) ==
  CASE riskLevel = "high" -> "bg-red-100 text-red-800 border-red-200"
    [] riskLevel = "medium" -> "bg-orange-100 text-orange-800 border-orange-200"
    [] riskLevel = "low" -> "bg-green-100 text-green-800 border-green-200"
    [] OTHER -> "bg-gray-100 text-gray-800 border-gray-200"

NoBrand == [shown |-> FALSE, riskColor |-> "none"]

\* a brand block shown for every result whose israeli_brand feature is true
CardBrandInfoByFeature(r) ==
  IF r.detected_features["israeli_brand"]
  THEN [shown |-> TRUE, riskColor |-> GetRiskLevelColor("high")]
  ELSE NoBrand

\* {result.brand_info && (...)} of the card: name, category and risk level
CardBrandInfo(r) ==
  IF Truthy(r.brand_info)
  THEN [shown |-> TRUE,
        riskColor |-> GetRiskLevelColor(r.brand_info.risk_level)]
  ELSE NoBrand

\* the colour of the confidence bar
ConfidenceBar(c) ==
  IF AtLeastTenths(c, 8) THEN "bg-red-500"
  ELSE IF AtLeastTenths(c, 6) THEN "bg-orange-500"
  ELSE IF AtLeastTenths(c, 4) THEN "bg-yellow-500"
  ELSE "bg-green-500"

\* what the card renders for a result: its texts, colours and brand block
DetectionResultCard(r) ==
  LET isIsraeliProduct == r.is_israeli_product
      confidenceColor == GetConfidenceColor(r.confidence)
  IN [rendered |-> TRUE,
      header |-> IF isIsraeliProduct
                 THEN "bg-red-50 border-b border-red-100"
                 ELSE "bg-green-50 border-b border-green-100",
      icon |-> IF isIsraeliProduct THEN "text-red-600" ELSE "text-green-600",
      title |-> IF isIsraeliProduct
                THEN "Produk Terafiliasi Israel" ELSE "Produk Aman",
      titleColor |-> IF isIsraeliProduct
                     THEN "text-red-800" ELSE "text-green-800",
      confidenceLine |-> IF isIsraeliProduct
                         THEN "text-red-600" ELSE "text-green-600",
      confidenceValue |-> confidenceColor,
      bar |-> ConfidenceBar(r.confidence),
      features |-> [k \in FeatureKeys |->
                      IF r.detected_features[k]
                      THEN "text-red-600" ELSE "text-gray-500"],
      brand |-> CardBrandInfo(r)]

\* {result.brand_info && (...)} of the row: the text "Brand: <name>"
RowBrandText(r) == Truthy(r.brand_info)

\* what DetectionHistory renders for one entry
DetectionHistoryRow(r) ==
  [rendered |-> TRUE,
   icon |-> IF r.is_israeli_product
            THEN "text-red-500" ELSE "text-green-500",
   label |-> IF r.is_israeli_product THEN "Produk Israel" ELSE "Produk Aman",
   labelColor |-> IF r.is_israeli_product
                  THEN "text-red-600" ELSE "text-green-600",
   brandText |-> RowBrandText(r),
   dots |-> {k \in FeatureKeys : r.detected_features[k]}]

NotRendered == [rendered |-> FALSE]

RenderCard ==
  /\ ~cardView.rendered
  /\ cardView' = DetectionResultCard(propsResult)
  /\ UNCHANGED <<propsResult, rowView>>

RenderRow ==
  /\ ~rowView.rendered
  /\ rowView' = DetectionHistoryRow(propsResult)
  /\ UNCHANGED <<propsResult, cardView>>

ViewInit ==
  /\ propsResult \in Results
  /\ cardView = NotRendered /\ rowView = NotRendered

ViewNext ==
  \/ RenderCard /\ UNCHANGED exceptView
  \/ RenderRow /\ UNCHANGED exceptView

(***************************************************************************)
(* One analyzeBatch call                                                   *)
(***************************************************************************)
\* the longest input array of the batch runs
MaxBatch == 3

Files == {"a.jpg", "b.jpg", "c.jpg"}
FileArrays == UNION {[1..n -> Files] : n \in 0..MaxBatch}

\* formData.append('images', file)
FormDataAppend(form, file) == Append(form, [name |-> "images", value |-> file])

\* a loop that puts every file in front of the earlier ones
RECURSIVE ForEachPrepend(_, _)
ForEachPrepend(files, form) ==
  IF files = <<>> THEN form
  ELSE ForEachPrepend(Tail(files),
                      <<[name |-> "images", value |-> Head(files)]>> \o form)

\* imageFiles.forEach((file, index) => { formData.append('images', file) })
RECURSIVE ForEachAppend(_, _)
ForEachAppend(files, form) ==
  IF files = <<>> THEN form
  ELSE ForEachAppend(Tail(files), FormDataAppend(form, Head(files)))

\* the DetectionResult the service computes for one image
ResultOf(file) == Obj("result of " \o file)

\* the orders in which the service may list the results of n images
Orders(n) ==
  {p \in [1..n -> 1..n] : \A i, j \in 1..n : i # j => p[i] # p[j]}

\* the 2xx body { results: [...] }
BatchBody(results) ==
  JsonBody([t |-> "object", v |-> "batch", results |-> results], Undefined)

\* what fetch settles with for a request carrying form, and the results
\* array the service put in the body (empty when the request failed)
BatchExchanges(form) ==
  {[exchange |-> x, results |-> <<>>] :
     x \in {Rejected(ErrorObj(FetchFailedMsg)),
            Resolved(MkResponse([status |-> 500,
                                 statusText |-> "Internal Server Error"],
                                NotJsonBody))}}
  \cup
  {[exchange |-> Resolved(MkResponse([status |-> 200, statusText |-> "OK"],
                                     BatchBody(rs))),
    results |-> rs] :
     rs \in {[i \in 1..Len(form) |-> ResultOf(form[p[i]].value)] :
               p \in Orders(Len(form))}}

\* the call has not been made
Unsent == [kind |-> "unsent", value |-> NoValue, exception |-> NoException]

\* analyzeBatch up to its await: the form is filled and the request sent
BatchSend ==
  /\ batchResult = Unsent
  /\ formData' = ForEachAppend(imageFiles, <<>>)
  /\ batchResult' = Pending
  /\ UNCHANGED <<imageFiles, serviceResults>>

\* analyzeBatch after its await
BatchSettle ==
  /\ batchResult = Pending
  /\ \E x \in BatchExchanges(formData) :
       /\ serviceResults' = x.results
       /\ batchResult' = AnalyzeBatch(x.exchange)
  /\ UNCHANGED <<imageFiles, formData>>

BatchInit ==
  /\ imageFiles \in FileArrays
  /\ formData = <<>> /\ serviceResults = <<>>
  /\ batchResult = Unsent

BatchNext ==
  \/ BatchSend /\ UNCHANGED exceptBatch
  \/ BatchSettle /\ UNCHANGED exceptBatch

(***************************************************************************)
(* The Dashboard with a service that does not keep to lib/types            *)
(***************************************************************************)
\* the fields of the bodies the service answers POST /analyze with; r1 and
\* r2 are DetectionResults, the third reports its confidence in percent
PercentResult == Obj("percentResult")
ResultFields(data) ==
  CASE data = Obj("r1") ->
         [is_israeli_product |-> TRUE,
          confidence |-> (9 * ConfSteps) \div 10,
          detected_features |->
            [k \in FeatureKeys |-> k \in {"israeli_brand", "barcode_729"}],
          brand_info |-> BrandInfo("high")]
    [] data = Obj("r2") ->
         [is_israeli_product |-> FALSE,
          confidence |-> (3 * ConfSteps) \div 10,
          detected_features |-> [k \in FeatureKeys |-> FALSE],
          brand_info |-> Undefined]
    [] data = PercentResult ->
         [is_israeli_product |-> TRUE,
          confidence |-> 92 * ConfSteps,
          detected_features |-> [k \in FeatureKeys |-> k = "hebrew_text"],
          brand_info |-> BrandInfo("high")]

\* a 2xx response with any JSON object, a 422 response with any detail
UntypedExchanges ==
  { Resolved(MkResponse([status |-> 200, statusText |-> "OK"],
                        JsonBody(PercentResult, Undefined))) }
  \cup { Resolved(MkResponse([status |-> 422,
                              statusText |-> "Unprocessable Entity"],
                             JsonBody(Obj("errorData"), d))) :
           d \in DetailValues }

UntypedResponse ==
  \E i \in 1..Len(inflight) : \E ex \in UntypedExchanges :
    DetectProductResume(i, ex)

UntypedNext ==
  \/ Capture /\ UNCHANGED exceptDash
  \/ HandleFileUpload /\ UNCHANGED exceptDash
  \/ UntypedResponse /\ UNCHANGED exceptDash
  \/ ToggleWebcam /\ UNCHANGED exceptDash
  \/ HandleSelectHistoryResult /\ UNCHANGED exceptDash

(***************************************************************************)
(* Specifications: one component runs, the others rest                     *)
(***************************************************************************)
StatusIdle ==
  /\ modelInfo = NotRun /\ healthStatus = NotRun /\ brandsCount = NotRun
  /\ isLoading = NotRun /\ statusError = NotRun
  /\ polls = NotRun /\ mountState = NotRun /\ lastPoll = NotRun
ApiIdle == apiCall = NotRun /\ apiResult = NotRun
UtilIdle == confidence = 0 /\ textColor = "none" /\ bgColor = "none"
ViewIdle == propsResult = NotRun /\ cardView = NotRun /\ rowView = NotRun
BatchIdle ==
  /\ imageFiles = NotRun /\ formData = NotRun /\ serviceResults = NotRun
  /\ batchResult = NotRun
OthersIdle == ViewIdle /\ BatchIdle

Init == DashInit /\ StatusIdle /\ ApiIdle /\ UtilIdle /\ OthersIdle
Spec == Init /\ [][Next]_vars

StatusSpecInit ==
  DashInit /\ StatusInit /\ ApiIdle /\ UtilIdle /\ OthersIdle
StatusSpec == StatusSpecInit /\ [][StatusNext]_vars

ApiSpecInit ==
  DashInit /\ StatusIdle /\ ApiInit /\ UtilIdle /\ OthersIdle
ApiSpec == ApiSpecInit /\ [][ApiNext]_vars

UtilSpecInit ==
  DashInit /\ StatusIdle /\ ApiIdle /\ UtilInit /\ OthersIdle
UtilSpec == UtilSpecInit /\ [][UtilNext]_vars

ViewSpecInit ==
  DashInit /\ StatusIdle /\ ApiIdle /\ UtilIdle /\ ViewInit /\ BatchIdle
ViewSpec == ViewSpecInit /\ [][ViewNext]_vars

BatchSpecInit ==
  DashInit /\ StatusIdle /\ ApiIdle /\ UtilIdle /\ ViewIdle /\ BatchInit
BatchSpec == BatchSpecInit /\ [][BatchNext]_vars

UntypedSpec == Init /\ [][UntypedNext]_vars

(***************************************************************************)
(* Properties of the history (Spec)                                        *)
(***************************************************************************)
\* C1: in every reachable state of the Dashboard the detection history
\* holds at most 10 entries.
C1_HistoryAtMostTen == Len(detectionHistory) <= 10

\* a full history that has just taken one more result while another request
\* is still outstanding
C1_FullHistory ==
  /\ Len(detectionHistory) = 10
  /\ lastStep.op = "success"
  /\ inflight # <<>>
  /\ detectionHistory[1] # detectionHistory[10]

\* C2: a successful detection puts its result at the head of the history
\* and displays it, shifts the previous entries by one position in their
\* order, and drops only the last entry when the history held 10.
C2_PushFront ==
  [][lastStep'.op = "success" =>
       /\ detectionResult' \in DetectionResults
       /\ detectionHistory'[1] = detectionResult'
       /\ Len(detectionHistory') = Min(Len(detectionHistory) + 1, 10)
       /\ \A k \in 2..Len(detectionHistory') :
            detectionHistory'[k] = detectionHistory[k - 1]]_vars

\* a full history whose two newest entries differ, right after a success
C2_ShiftedHistory ==
  /\ Len(detectionHistory) = 10
  /\ lastStep.op = "success"
  /\ detectionHistory[1] # detectionHistory[2]
  /\ detectionResult = detectionHistory[1]

(***************************************************************************)
(* Properties of DetectionApi (ApiSpec)                                    *)
(***************************************************************************)
CallDone == apiResult.kind # "pending"
NonOkResponse ==
  ~apiCall.exchange.rejected /\ ~Ok(apiCall.exchange.response)

\* C3: for every non-2xx response, whatever its body, the result has
\* success = false and an error message that is a non-empty string.
C3_NonEmptyStringError ==
  (CallDone /\ NonOkResponse) =>
    /\ apiResult.kind = "return"
    /\ apiResult.value.success = FALSE
    /\ apiResult.value.error.t = "string"
    /\ apiResult.value.error.v # ""

\* the body of the response carries a detail text
CarriesDetailText(response) ==
  /\ response.body.json
  /\ response.body.data.t = "object"
  /\ response.body.detail.t = "string"
  /\ response.body.detail.v # ""

\* C4: for a non-2xx response the error is the server-provided detail text
\* when the body carries one, and otherwise 'HTTP <status>: <statusText>';
\* no other message is produced.
C4_DetailOrStatusMessage ==
  (CallDone /\ NonOkResponse) =>
    /\ apiResult.kind = "return"
    /\ apiResult.value.error =
         IF CarriesDetailText(apiCall.exchange.response)
         THEN apiCall.exchange.response.body.detail
         ELSE HttpStatusMessage(apiCall.exchange.response)

\* C5: every DetectionApi call completes with a result value for every
\* outcome of the exchange and never propagates an exception: a failure
\* result for a fetch rejection, a non-2xx response and a 2xx response with
\* an unparsable body, a success result for a 2xx response with a valid body.
C5_CallsNeverThrow ==
  CallDone =>
    /\ apiResult.kind = "return"
    /\ apiResult.value.success =
         (/\ ~apiCall.exchange.rejected
          /\ Ok(apiCall.exchange.response)
          /\ apiCall.exchange.response.body.json)
    /\ apiResult.value.success =>
         apiResult.value.data = apiCall.exchange.response.body.data
    /\ ~apiResult.value.success => Truthy(apiResult.value.error)

\* a call whose 2xx response had an unparsable body has returned a failure
C5_UnparsableOkBody ==
  /\ CallDone
  /\ apiCall.endpoint = "healthCheck"
  /\ ~apiCall.exchange.rejected
  /\ Ok(apiCall.exchange.response)
  /\ ~apiCall.exchange.response.body.json
  /\ apiResult.kind = "return"
  /\ apiResult.value.success = FALSE

(***************************************************************************)
(* Properties of the detection requests (Spec)                             *)
(***************************************************************************)
\* C6 as stated: each submission (a capture or an upload that reaches
\* detectProduct) issues exactly one POST /analyze request.
C6_ExactlyOneRequest == lastStep.op = "submit" => lastStep.sent = 1

\* C6 amended: a submission issues one request when its image data converts
\* to a file and none otherwise; no other handler issues a request, and a
\* response, failed or not, only removes its own request.
C6_AtMostOneRequest ==
  [][/\ lastStep'.op = "submit" =>
          /\ lastStep'.sent =
               (IF DataURLtoFile(capturedImage').kind = "return"
                THEN 1 ELSE 0)
          /\ Len(inflight') = Len(inflight) + lastStep'.sent
     /\ lastStep'.op \in {"success", "failure"} =>
          Len(inflight') = Len(inflight) - 1
     /\ lastStep'.op = "ui" => inflight' = inflight]_vars

\* a failed detection has been handled and nothing is outstanding
C6_FailedNoRetry ==
  /\ lastStep.op = "failure"
  /\ inflight = <<>>
  /\ Truthy(error)
  /\ ~isDetecting

\* C7: whenever at least one detection request is outstanding, the capture
\* control is disabled (isDetecting is true).
C7_DetectingWhileOutstanding == inflight # <<>> => isDetecting

\* C10: responses are applied in order of arrival: every successful
\* response, also that of a request overtaken by a later one, becomes the
\* displayed result and the head of the history; and no handler other than
\* the arrival of its response removes an outstanding request.
C10_ArrivalOrder ==
  [][/\ lastStep'.op = "success" =>
          /\ detectionResult' = detectionHistory'[1]
          /\ Len(detectionHistory') = Min(Len(detectionHistory) + 1, 10)
     /\ lastStep'.op \in {"ui", "submit"} =>
          /\ Len(inflight') >= Len(inflight)
          /\ SubSeq(inflight', 1, Len(inflight)) = inflight]_vars

\* the response of the later of two overlapping requests has been applied
\* while the earlier request is still outstanding
C10_Overtaken ==
  /\ inflight # <<>>
  /\ inflight[1].overtaken
  /\ lastStep.op = "success"
  /\ detectionResult = detectionHistory[1]

(***************************************************************************)
(* Properties of the status poll (StatusSpec)                              *)
(***************************************************************************)
\* C8: when a status poll fails (one of its three requests ends as a
\* network error or a non-2xx response), after the poll completes the error
\* state is set and the error view is shown.
C8_FailureReported ==
  (lastPoll.op = "complete" /\ lastPoll.failed) =>
    (Truthy(statusError) /\ StatusView = "error")

(***************************************************************************)
(* Properties of the confidence colours (UtilSpec)                         *)
(***************************************************************************)
\* the four buckets in rising order
ColorRank(color) ==
  CASE color \in {"text-green-600", "bg-green-50 border-green-200"} -> 0
    [] color \in {"text-yellow-600", "bg-yellow-50 border-yellow-200"} -> 1
    [] color \in {"text-orange-600", "bg-orange-50 border-orange-200"} -> 2
    [] color \in {"text-red-600", "bg-red-50 border-red-200"} -> 3
    [] OTHER -> -1

\* the ranges of the four buckets: < 0.4, [0.4, 0.6), [0.6, 0.8), >= 0.8
InBucket(c, rank) ==
  CASE rank = 0 -> c * 10 < 4 * ConfSteps
    [] rank = 1 -> c * 10 >= 4 * ConfSteps /\ c * 10 < 6 * ConfSteps
    [] rank = 2 -> c * 10 >= 6 * ConfSteps /\ c * 10 < 8 * ConfSteps
    [] OTHER -> c * 10 >= 8 * ConfSteps

\* C9: every confidence of [0, 1] maps to exactly one of the four buckets,
\* the one whose range holds it, and a larger confidence never maps to a
\* lower bucket than a smaller one.
C9_BucketsTotalMonotonic ==
  /\ textColor # "none" =>
       /\ ColorRank(textColor) \in 0..3
       /\ \A r \in 0..3 :
            InBucket(confidence, r) <=> (r = ColorRank(textColor))
       /\ \A d \in 0..confidence :
            ColorRank(GetConfidenceColor(d)) <= ColorRank(textColor)
  /\ bgColor # "none" =>
       /\ ColorRank(bgColor) \in 0..3
       /\ \A r \in 0..3 :
            InBucket(confidence, r) <=> (r = ColorRank(bgColor))
       /\ \A d \in 0..confidence :
            ColorRank(GetConfidenceBgColor(d)) <= ColorRank(bgColor)

\* both colours computed for the confidence 0.8, the lowest of the red bucket
C9_RedBoundary ==
  /\ confidence * 10 = 8 * ConfSteps
  /\ textColor = "text-red-600"
  /\ bgColor = "bg-red-50 border-red-200"

(***************************************************************************)
(* Properties of the poll timer (StatusSpec)                               *)
(***************************************************************************)
\* C11: the mount of SystemStatus starts one status poll, and every tick of
\* the interval timer starts one more full poll, also while an earlier poll
\* is outstanding (the tick is neither skipped nor merged); after the
\* unmount the component stays unmounted and no poll is started.
C11_TickStartsPoll ==
  [][/\ lastPoll'.op = "mount" =>
          /\ mountState = "rendered" /\ mountState' = "mounted"
          /\ polls' = polls + 1
     /\ lastPoll'.op = "tick" =>
          /\ mountState = "mounted"
          /\ polls' = polls + 1
          /\ isLoading'
     /\ mountState = "mounted" /\ polls < MaxPolls => ENABLED IntervalTick
     /\ mountState = "unmounted" =>
          /\ mountState' = "unmounted"
          /\ polls' <= polls
          /\ lastPoll'.op = "dropped"]_vars

\* a tick has fired while the poll of the mount was outstanding: two polls
\* are outstanding
C11_TickDuringPoll ==
  /\ lastPoll.op = "tick"
  /\ polls = 2
  /\ mountState = "mounted"

(***************************************************************************)
(* Properties of the rendering of a result (ViewSpec)                      *)
(***************************************************************************)
\* C12: the card shows the brand block (name, category, risk level) and the
\* history row shows the "Brand:" text if and only if the result has
\* brand_info; a result without brand_info renders no brand field.
C12_BrandOnlyWithBrandInfo ==
  LET hasBrandInfo == propsResult.brand_info.t = "object" IN
  /\ cardView.rendered =>
       /\ cardView.brand.shown <=> hasBrandInfo
       /\ ~hasBrandInfo => cardView.brand = NoBrand
  /\ rowView.rendered => (rowView.brandText <=> hasBrandInfo)

\* a result whose israeli_brand feature is true but that carries no
\* brand_info has been rendered by both components
C12_BrandFeatureWithoutInfo ==
  /\ cardView.rendered /\ rowView.rendered
  /\ propsResult.detected_features["israeli_brand"]
  /\ propsResult.brand_info = Undefined
  /\ ~cardView.brand.shown /\ ~rowView.brandText

(***************************************************************************)
(* Further properties of the Dashboard (Spec)                              *)
(***************************************************************************)
\* C13: the history is not deduplicated: a successful detection whose
\* result equals an entry already in the history adds one more entry and
\* keeps the earlier one (shifted by one position); and no other handler,
\* the selection of a history entry included, changes the history.
C13_NoDeduplication ==
  [][/\ lastStep'.op = "success" =>
          /\ Len(detectionHistory') = Min(Len(detectionHistory) + 1, 10)
          /\ detectionHistory'[1] = detectionResult'
          /\ \A k \in DOMAIN detectionHistory :
               (k < 10 /\ detectionHistory[k] = detectionResult') =>
                 detectionHistory'[k + 1] = detectionResult'
     /\ lastStep'.op # "success" =>
          detectionHistory' = detectionHistory]_vars

\* the same result sits in the two newest entries, and an older, different
\* entry has been selected for display
C13_DuplicateEntries ==
  /\ Len(detectionHistory) >= 3
  /\ detectionHistory[1] = detectionHistory[2]
  /\ detectionHistory[3] # detectionHistory[1]
  /\ lastStep.op = "ui"
  /\ detectionResult = detectionHistory[3]
  /\ capturedImage = Null

(***************************************************************************)
(* Properties of analyzeBatch (BatchSpec)                                  *)
(***************************************************************************)
\* C14: analyzeBatch puts the images in the one multipart request in the
\* order of the input array, and hands the results array of a successful
\* response to the caller in the order the service returned it; so result i
\* is the result of image i whenever the service kept the order.
C14_BatchOrderPreserved ==
  LET sent == batchResult.kind # "unsent"
      done == batchResult.kind \in {"return", "throw"}
      succeeded == batchResult.kind = "return" /\ batchResult.value.success
      orderKept ==
        \A i \in 1..Len(formData) :
          serviceResults[i] = ResultOf(formData[i].value)
  IN
  /\ sent =>
       /\ Len(formData) = Len(imageFiles)
       /\ \A i \in 1..Len(imageFiles) :
            formData[i] = [name |-> "images", value |-> imageFiles[i]]
  /\ done => batchResult.kind = "return"
  /\ (done /\ succeeded) =>
       /\ batchResult.value.data.results = serviceResults
       /\ orderKept =>
            /\ Len(batchResult.value.data.results) = Len(imageFiles)
            /\ \A i \in 1..Len(imageFiles) :
                 batchResult.value.data.results[i] = ResultOf(imageFiles[i])

\* a batch of three different images has been answered in their order
C14_ThreeInOrder ==
  /\ imageFiles = <<"b.jpg", "a.jpg", "c.jpg">>
  /\ batchResult.kind = "return" /\ batchResult.value.success
  /\ batchResult.value.data.results =
       <<ResultOf("b.jpg"), ResultOf("a.jpg"), ResultOf("c.jpg")>>

\* C19: isDetecting is reset on every path of detectProduct: when the
\* response arrives, successful or failed, and when an exception is thrown
\* before the request is sent; it is never true with no request outstanding.
C19_DetectingAlwaysReset ==
  /\ isDetecting => inflight # <<>>
  /\ lastStep.op \in {"success", "failure"} => ~isDetecting
  /\ (lastStep.op = "submit" /\ lastStep.sent = 0) => ~isDetecting

\* the image of a submission could not be converted: no request was sent,
\* the error is set and isDetecting is false again
C19_ResetAfterConversionError ==
  /\ lastStep = Step("submit", 0)
  /\ capturedImage = EmptyFileDataURL
  /\ error = Str(NullIndexMsg)
  /\ inflight = <<>>
  /\ ~isDetecting

\* C23: toggleWebcam and handleSelectHistoryResult never change the
\* history, the error or isDetecting; turning the webcam off clears the
\* captured image and the displayed result, turning it on changes only
\* isWebcamActive, and a selection displays an entry of the history and
\* clears the captured image.
C23_ToggleAndSelectFrame ==
  [][lastStep'.op = "ui" =>
       /\ UNCHANGED <<detectionHistory, error, isDetecting, inflight>>
       /\ IF isWebcamActive' # isWebcamActive
          THEN IF isWebcamActive
               THEN capturedImage' = Null /\ detectionResult' = Null
               ELSE UNCHANGED <<capturedImage, detectionResult>>
          ELSE \/ UNCHANGED <<capturedImage, detectionResult>>
               \/ /\ capturedImage' = Null
                  /\ \E k \in DOMAIN detectionHistory :
                       detectionResult' = detectionHistory[k]]_vars

\* the webcam has been turned off while a request was outstanding and an
\* error was shown: image and result are cleared, the rest is kept
C23_TurnedOffDuringDetection ==
  /\ lastStep.op = "ui"
  /\ ~isWebcamActive
  /\ capturedImage = Null /\ detectionResult = Null
  /\ detectionHistory # <<>>
  /\ Truthy(error)
  /\ inflight # <<>>

(***************************************************************************)
(* Properties of the Dashboard with any service (UntypedSpec)              *)
(***************************************************************************)
\* the results the Dashboard holds: the displayed one and the history
HeldResults ==
  {detectionHistory[k] : k \in 1..Len(detectionHistory)}
  \cup (IF detectionResult = Null THEN {} ELSE {detectionResult})

\* C15: every DetectionResult held by the client (the displayed result and
\* every history entry) has a confidence within [0, 1], detected_features
\* with exactly the five keys, and brand_info only when its israeli_brand
\* feature is true, for any 2xx response body.
C15_HeldResultsWellFormed ==
  \A data \in HeldResults :
    LET r == ResultFields(data) IN
    /\ r.confidence \in 0..ConfSteps
    /\ DOMAIN r.detected_features = FeatureKeys
    /\ Truthy(r.brand_info) => r.detected_features["israeli_brand"]

\* a detectProduct that ended in its catch block: a failed response, or an
\* image that could not be prepared
FailedDetection(step) ==
  step.op = "failure" \/ (step.op = "submit" /\ step.sent = 0)

\* C17: a failed detection leaves the history and the displayed result
\* unchanged and sets the error banner to a non-empty message; the banner
\* stays until the next detection starts, which clears it before it issues
\* its request.
C17_FailureSetsBanner ==
  [][/\ FailedDetection(lastStep') =>
          /\ detectionHistory' = detectionHistory
          /\ detectionResult' = detectionResult
          /\ error'.t = "string" /\ error'.v # ""
     /\ (lastStep'.op = "submit" /\ lastStep'.sent = 1) => error' = Null
     /\ lastStep'.op \in {"ui", "success"} => error' = error]_vars

\* the colour classes by hue
RedClasses ==
  {"bg-red-50 border-b border-red-100", "text-red-500", "text-red-600",
   "text-red-800", "bg-red-500", "bg-red-100 text-red-800 border-red-200"}
OrangeClasses ==
  {"text-orange-600", "bg-orange-500",
   "bg-orange-100 text-orange-800 border-orange-200"}
GreenClasses ==
  {"bg-green-50 border-b border-green-100", "text-green-500",
   "text-green-600", "text-green-800", "bg-green-500",
   "bg-green-100 text-green-800 border-green-200"}

\* the colours of the verdict (header, icon, title, confidence line), and
\* those of the confidence value and the confidence bar
VerdictColors(view) ==
  {view.header, view.icon, view.titleColor, view.confidenceLine}
ConfidenceColors(view) == {view.confidenceValue, view.bar}

\* C16: a result is presented in green exactly when is_israeli_product is
\* false ("Produk Aman") and in red or orange exactly when it is true; the
\* card of a safe product shows its verdict and its confidence in no red
\* or orange, whatever the confidence.
C16_VerdictColouring ==
  cardView.rendered =>
    IF propsResult.is_israeli_product
    THEN /\ cardView.title = "Produk Terafiliasi Israel"
         /\ VerdictColors(cardView) \subseteq RedClasses \cup OrangeClasses
    ELSE /\ cardView.title = "Produk Aman"
         /\ VerdictColors(cardView) \subseteq GreenClasses
         /\ ConfidenceColors(cardView) \cap (RedClasses \cup OrangeClasses)
              = {}

(***************************************************************************)
(* Properties of the state a status poll leaves (StatusSpec)               *)
(***************************************************************************)
\* the number of products of the three databases: none; one brand of two
\* products; two brands of one and of two products
ProductCount(brands) ==
  CASE brands = Obj("brands0") -> 0
    [] brands = Obj("brands2") -> 2
    [] brands = Obj("brands3") -> 3

\* C18: after a poll whose brands request succeeded with a brand database,
\* the database count is the number of products of all brands of that
\* database (0 for an empty one), whatever the count was before.
C18_CountIsSumOfProducts ==
  (/\ lastPoll.op = "complete"
   /\ lastPoll.responses.brands.success
   /\ lastPoll.responses.brands.data \in BrandDatabases) =>
    brandsCount = ProductCount(lastPoll.responses.brands.data)

\* the status panel shows the count 3 of the two-brand database while an
\* earlier poll is still outstanding
C18_TwoBrandsCounted ==
  /\ lastPoll.op = "complete"
  /\ lastPoll.responses.brands.data = Obj("brands3")
  /\ brandsCount = 3
  /\ StatusView = "status"
  /\ polls = 1

\* C20: a status poll sets healthStatus, modelInfo and brandsCount each
\* from its own successful response only and leaves the field as it was
\* when its request failed; no other handler changes them.
C20_FieldsOnlyFromOwnSuccess ==
  [][/\ lastPoll'.op = "complete" =>
          LET responses == lastPoll'.responses IN
          /\ healthStatus' = IF responses.health.success
                             THEN responses.health.data ELSE healthStatus
          /\ modelInfo' = IF responses.model.success
                          THEN responses.model.data ELSE modelInfo
          /\ ~responses.brands.success => brandsCount' = brandsCount
     /\ lastPoll'.op # "complete" =>
          UNCHANGED <<healthStatus, modelInfo, brandsCount>>]_vars

\* 'Online' recorded by an earlier poll is displayed after a poll whose
\* health request failed
C20_StaleOnline ==
  /\ lastPoll.op = "complete"
  /\ ~lastPoll.responses.health.success
  /\ healthStatus = Obj("healthy-ready")
  /\ StatusView = "status"

(***************************************************************************)
(* Properties of the status panel (StatusSpec)                             *)
(***************************************************************************)
\* C21: whenever at least one status poll is outstanding, the loading flag
\* of SystemStatus is true, for every interleaving of ticks, refreshes and
\* response arrivals.
C21_LoadingWhilePolling == polls > 0 => isLoading

\* C22: the panel shows 'Online' if and only if the recorded health status
\* has status 'healthy' and model_ready true; while no health status is
\* recorded (healthStatus is null) it shows 'Offline', 'Tidak Aktif' and
\* 'Tidak Siap'.
C22_OnlineIffHealthyAndReady ==
  StatusView = "status" =>
    /\ SystemLabel \in {"Online", "Offline"}
    /\ SystemLabel = "Online" <=>
         healthStatus \in {h \in HealthResults :
                             /\ HealthFields(h).status.v = "healthy"
                             /\ HealthFields(h).model_ready.v = "true"}
    /\ healthStatus = Null =>
         /\ SystemLabel = "Offline"
         /\ ApiServerLabel = "Tidak Aktif"
         /\ ModelLabel = "Tidak Siap"

\* a poll whose health request failed has completed and the panel is shown
\* with no health status recorded
C22_PanelWithoutHealth ==
  /\ StatusView = "status"
  /\ lastPoll.op = "complete"
  /\ healthStatus = Null
  /\ SystemLabel = "Offline"
  /\ ApiServerLabel = "Tidak Aktif" /\ ModelLabel = "Tidak Siap"

(***************************************************************************)
(* Well-formedness of the results of DetectionApi (ApiSpec)                *)
(***************************************************************************)
\* a value that is missing: undefined or null
Missing(x) == x.t \in {"undefined", "null"}

\* C24: every result produced by DetectionApi is well-formed: with success
\* true its data is present and its error absent, with success false its
\* error is present and its data absent.
C24_ResultWellFormed ==
  CallDone =>
    /\ apiResult.kind = "return"
    /\ IF apiResult.value.success
       THEN ~Missing(apiResult.value.data) /\ Missing(apiResult.value.error)
       ELSE ~Missing(apiResult.value.error) /\ Missing(apiResult.value.data)

====
